---- MODULE Spec2Model ----
(***************************************************************************)
(* Model of the cafe inventory application: the reducer store (AppState),  *)
(* the localStorage tombstone ledger, the Supabase gateway and the         *)
(* syncWithSupabase reconcile with its triggers.                           *)
(*                                                                         *)
(* Ids are Date.now() strings in the program; they are modelled as small   *)
(* positive integers in creation order.  JavaScript undefined, null and '' *)
(* are kept apart in date and number fields: Undefined, Null, EmptyString. *)
(***************************************************************************)
EXTENDS Integers, Sequences, FiniteSets, TLC

VARIABLES
  state,    \* AppState held by useReducer(appReducer, initialState)
  remote,   \* the Supabase tables
  ls,       \* localStorage: tombstone lists and configuration keys
  sync,     \* the syncWithSupabase call in flight (its position and locals)
  eff,      \* the AppState captured by the closures of the auto-sync effects
  fresh,    \* how many ids of each kind Date.now() has handed out
  now,      \* Date.now(), in days
  error,    \* the error state of AppProvider (setError)
  cards,    \* the useState values of the mounted ProductCards, by product
  last      \* the handler that ran last and the gateway or email method it called

vars == <<state, remote, ls, sync, eff, fresh, now, error, cards, last>>

----------------------------------------------------------------------------
(* Bounds of the model *)

MaxTicks == 1        \* retention periods that pass in one run
MaxHistory == 2      \* entries the order history may reach, locally and remotely

(* Program constants *)

RetentionDays == 30  \* cleanupThreshold: 30 * 24 * 60 * 60 * 1000 ms

StartDate == 0       \* new Date().toISOString() when a session starts
OrderDate == 1       \* new Date().toISOString() when an order is submitted

Undefined == -1      \* JavaScript undefined in a date or number field
EmptyString == -2    \* '' in a date field
Null == -3           \* SQL null in a date or number column

----------------------------------------------------------------------------
(* The entities the user can create.  Names sort like ids.                 *)

SessionIds == {1, 2}
CategoryIds == {1, 2}
ProductIds == {1, 2}
Quantities == {2, 7}
TypedQuantities == {-4, 0, 2, 7}
UserNames == {"", " ", "Ana"}

Loc(id) == [id |-> id, name |-> "Main Location", address |-> "123 Main St"]

Sup(id) == [id |-> id, name |-> "Costco"]

Cat(id) ==
  [id |-> id,
   name |-> IF id = 1 THEN "Cafe" ELSE "Food",
   color |-> IF id = 1 THEN "#FFF3E0" ELSE "#E3F2FD"]

Prod(id) ==
  [id |-> id,
   name |-> IF id = 1 THEN "Coffee Beans" ELSE "Sugar Packets",
   categories |-> IF id = 1 THEN <<1, 2>> ELSE <<2>>,
   suppliers |-> <<1>>,
   locations |-> <<[locationId |-> 1,
                    minThreshold |-> IF id = 1 THEN 5 ELSE Undefined,
                    isAvailable |-> TRUE]>>,
   requiresQuantity |-> (id = 1)]

----------------------------------------------------------------------------
(* Array helpers *)

Ids(seq) == {seq[i].id : i \in 1..Len(seq)}

Range(seq) == {seq[i] : i \in 1..Len(seq)}

Includes(seq, x) == \E i \in 1..Len(seq) : seq[i] = x

Has(seq, id) == \E i \in 1..Len(seq) : seq[i].id = id

Find(seq, id) ==
  seq[CHOOSE i \in 1..Len(seq) :
        /\ seq[i].id = id
        /\ \A j \in 1..(i - 1) : seq[j].id # id]

Map(seq, F(_)) == [i \in 1..Len(seq) |-> F(seq[i])]

Filter(seq, T(_)) == SelectSeq(seq, T)

RECURSIVE Concat(_, _)
Concat(a, b) == IF b = <<>> THEN a ELSE Concat(Append(a, Head(b)), Tail(b))

(* Array.prototype.findIndex, 1-based; 0 when there is no match *)
FindIndex(seq, T(_)) ==
  IF \E i \in 1..Len(seq) : T(seq[i])
  THEN CHOOSE i \in 1..Len(seq) : T(seq[i]) /\ \A j \in 1..(i - 1) : ~T(seq[j])
  ELSE 0

----------------------------------------------------------------------------
(* AppState *)

NoSession ==
  [id |-> 0, locationId |-> 0, userName |-> "", startDate |-> Undefined,
   endDate |-> Undefined, items |-> <<>>, isSubmitted |-> FALSE]

initialState ==
  [locations |-> <<>>, categories |-> <<>>, suppliers |-> <<>>,
   products |-> <<>>, sessions |-> <<>>, orderHistory |-> <<>>,
   currentSession |-> NoSession]

(* appReducer, one operator per case *)

SET_LOCATIONS(st, payload) == [st EXCEPT !.locations = payload]

SET_CATEGORIES(st, payload) == [st EXCEPT !.categories = payload]

SET_SUPPLIERS(st, payload) == [st EXCEPT !.suppliers = payload]

SET_PRODUCTS(st, payload) == [st EXCEPT !.products = payload]

(* SET_SESSIONS that clears a current session the payload does not hold *)
SET_SESSIONS_Clears(st, payload) ==
  LET cs == st.currentSession
  IN [st EXCEPT !.sessions = payload,
                !.currentSession =
                   IF cs # NoSession /\ Has(payload, cs.id)
                   THEN Find(payload, cs.id) ELSE NoSession]

(* SET_SESSIONS that never touches the current session *)
SET_SESSIONS_KeepsLocal(st, payload) == [st EXCEPT !.sessions = payload]

SET_SESSIONS(st, payload) ==
  LET cs == st.currentSession
      preservedCurrentSession ==
        IF cs # NoSession /\ ~Has(payload, cs.id) THEN cs
        ELSE IF cs # NoSession THEN Find(payload, cs.id)
        ELSE cs
  IN [st EXCEPT !.sessions = payload,
                !.currentSession = preservedCurrentSession]

SET_ORDER_HISTORY(st, payload) == [st EXCEPT !.orderHistory = payload]

(* SET_CURRENT_SESSION that adds the session without looking for its id *)
SET_CURRENT_SESSION_AlwaysAdds(st, newSession) ==
  IF newSession # NoSession
  THEN [st EXCEPT !.currentSession = newSession,
                  !.sessions = Append(st.sessions, newSession)]
  ELSE [st EXCEPT !.currentSession = newSession]

SET_CURRENT_SESSION(st, newSession) ==
  IF newSession # NoSession /\ ~Has(st.sessions, newSession.id)
  THEN [st EXCEPT !.currentSession = newSession,
                  !.sessions = Append(st.sessions, newSession)]
  ELSE [st EXCEPT !.currentSession = newSession]

ADD_CATEGORY(st, payload) ==
  [st EXCEPT !.categories = Append(st.categories, payload)]

ADD_PRODUCT(st, payload) ==
  [st EXCEPT !.products = Append(st.products, payload)]

(* UPDATE_SESSION that pushes the payload without looking for its id *)
UPDATE_SESSION_AlwaysPushes(st, payload) ==
  [st EXCEPT !.sessions = Append(st.sessions, payload),
             !.currentSession =
                IF st.currentSession.id = payload.id THEN payload
                ELSE st.currentSession]

UPDATE_SESSION(st, payload) ==
  LET mapped == [i \in 1..Len(st.sessions) |->
                   IF st.sessions[i].id = payload.id THEN payload
                   ELSE st.sessions[i]]
      updatedSessions ==
        IF ~Has(st.sessions, payload.id) THEN Append(mapped, payload)
        ELSE mapped
  IN [st EXCEPT !.sessions = updatedSessions,
                !.currentSession =
                   IF st.currentSession.id = payload.id THEN payload
                   ELSE st.currentSession]

ADD_ORDER_HISTORY_ITEMS(st, payload) ==
  [st EXCEPT !.orderHistory = Concat(st.orderHistory, payload)]

(* DELETE_CATEGORY that leaves the products alone *)
DELETE_CATEGORY_KeepsRefs(st, id) ==
  LET keepCat(c) == c.id # id
  IN [st EXCEPT !.categories = Filter(st.categories, keepCat)]

DELETE_CATEGORY(st, id) ==
  LET keepCat(c) == c.id # id
      keepRef(catId) == catId # id
      strip(p) == [p EXCEPT !.categories = Filter(p.categories, keepRef)]
  IN [st EXCEPT !.categories = Filter(st.categories, keepCat),
                !.products = Map(st.products, strip)]

(* DELETE_PRODUCT that empties the items of the current session *)
DELETE_PRODUCT_ClearsItems(st, id) ==
  LET keepProd(p) == p.id # id
  IN [st EXCEPT !.products = Filter(st.products, keepProd),
                !.currentSession =
                   IF st.currentSession # NoSession
                   THEN [st.currentSession EXCEPT !.items = <<>>]
                   ELSE st.currentSession]

DELETE_PRODUCT(st, id) ==
  LET keepProd(p) == p.id # id
      keepItem(item) == item.productId # id
  IN [st EXCEPT !.products = Filter(st.products, keepProd),
                !.currentSession =
                   IF st.currentSession # NoSession
                   THEN [st.currentSession EXCEPT
                           !.items = Filter(st.currentSession.items, keepItem)]
                   ELSE st.currentSession]

(* DELETE_SESSION that leaves the order history alone *)
DELETE_SESSION_KeepsHistory(st, id) ==
  LET keepSess(s) == s.id # id
  IN [st EXCEPT !.sessions = Filter(st.sessions, keepSess)]

DELETE_SESSION(st, id) ==
  LET keepSess(s) == s.id # id
      keepHist(item) == item.sessionId # id
  IN [st EXCEPT !.sessions = Filter(st.sessions, keepSess),
                !.orderHistory = Filter(st.orderHistory, keepHist)]

(* The localStorage writes of the three DELETE cases: the id goes on the   *)
(* simple list and, with Date.now(), on the timestamped list.  The lists   *)
(* are only ever searched and filtered, so each is kept as the set of its  *)
(* entries.                                                                *)
pushDeleted(l, kind, id, t) ==
  [l EXCEPT ![kind].simple = @ \cup {id},
            ![kind].stamped = @ \cup {[id |-> id, timestamp |-> t]}]

----------------------------------------------------------------------------
(* SupabaseService: the tables are sets of rows keyed by id; order_history *)
(* rows get a generated id and are kept in insertion order; app_settings   *)
(* tells whether the three email keys are stored.                          *)

EmptyRemote ==
  [locations |-> {}, categories |-> {}, suppliers |-> {}, products |-> {},
   sessions |-> {}, order_history |-> <<>>, app_settings |-> FALSE]

Upsert(tbl, row) == {r \in tbl : r.id # row.id} \cup {row}

(* a loop of awaited upserts over an array of rows *)
RECURSIVE UpsertRows(_, _)
UpsertRows(tbl, rows) ==
  IF rows = <<>> THEN tbl ELSE UpsertRows(Upsert(tbl, Head(rows)), Tail(rows))

RECURSIVE OrderAsc(_)
OrderAsc(S) ==
  IF S = {} THEN <<>>
  ELSE LET m == CHOOSE r \in S : \A q \in S : r.id <= q.id
       IN <<m>> \o OrderAsc(S \ {m})

RECURSIVE OrderDesc(_)
OrderDesc(S) ==
  IF S = {} THEN <<>>
  ELSE LET m == CHOOSE r \in S : \A q \in S : r.id >= q.id
       IN <<m>> \o OrderDesc(S \ {m})

(* rows of a sequence by order_date descending, equal dates in table order *)
RECURSIVE OrderByDateDesc(_)
OrderByDateDesc(seq) ==
  IF seq = <<>> THEN <<>>
  ELSE LET i == CHOOSE k \in 1..Len(seq) :
                  /\ \A j \in 1..Len(seq) : seq[k].order_date >= seq[j].order_date
                  /\ \A j \in 1..(k - 1) : seq[j].order_date < seq[k].order_date
           rest == [j \in 1..(Len(seq) - 1) |-> IF j < i THEN seq[j] ELSE seq[j + 1]]
       IN <<seq[i]>> \o OrderByDateDesc(rest)

locationRow(location) ==
  [id |-> location.id, name |-> location.name, address |-> location.address]

getLocations(db) ==
  LET conv(row) == [id |-> row.id, name |-> row.name, address |-> row.address]
  IN Map(OrderAsc(db.locations), conv)

categoryRow(category) ==
  [id |-> category.id, name |-> category.name,
   color |-> IF category.color \in {"undefined", ""} THEN "#E3F2FD"
             ELSE category.color]

getCategories(db) ==
  LET conv(row) == [id |-> row.id, name |-> row.name, color |-> row.color]
  IN Map(OrderAsc(db.categories), conv)

supplierRow(supplier) == [id |-> supplier.id, name |-> supplier.name]

getSuppliers(db) ==
  LET conv(row) == [id |-> row.id, name |-> row.name]
  IN Map(OrderAsc(db.suppliers), conv)

(* upsertProduct that leaves requires_quantity to the column default *)
productRow_DefaultFlag(product) ==
  [id |-> product.id, name |-> product.name,
   categories |-> product.categories, suppliers |-> product.suppliers,
   requires_quantity |-> TRUE,
   locations |-> product.locations]

productRow(product) ==
  [id |-> product.id, name |-> product.name,
   categories |-> product.categories, suppliers |-> product.suppliers,
   requires_quantity |-> product.requiresQuantity,
   locations |-> product.locations]

getProducts(db) ==
  LET conv(row) ==
        [id |-> row.id, name |-> row.name, categories |-> row.categories,
         suppliers |-> row.suppliers, locations |-> row.locations,
         requiresQuantity |-> row.requires_quantity]
  IN Map(OrderAsc(db.products), conv)

sessionRow(session) ==
  [id |-> session.id, location_id |-> session.locationId,
   user_name |-> session.userName, start_date |-> session.startDate,
   end_date |-> IF session.endDate \in {Undefined, EmptyString} THEN Null
                ELSE session.endDate,
   items |-> session.items, is_submitted |-> session.isSubmitted]

(* sessions come back by start_date descending, that is newest id first *)
getSessions(db) ==
  LET conv(row) ==
        [id |-> row.id, locationId |-> row.location_id,
         userName |-> row.user_name, startDate |-> row.start_date,
         endDate |-> IF row.end_date = Null THEN EmptyString ELSE row.end_date,
         items |-> row.items, isSubmitted |-> row.is_submitted]
  IN Map(OrderDesc(db.sessions), conv)

deleteSession(db, sessionId) ==
  LET keepHist(row) == row.session_id # sessionId
  IN [db EXCEPT !.order_history = Filter(db.order_history, keepHist),
                !.sessions = {r \in db.sessions : r.id # sessionId}]

(* How the requests of one compound delete end: select tells whether the   *)
(* read of the dependent rows returns without error, failed holds the ids  *)
(* of the dependent rows whose update returns an error, history whether    *)
(* the delete on order_history goes through and delete whether the delete  *)
(* of the row itself does.                                                 *)
Outcomes(ids) ==
  [select : BOOLEAN, failed : SUBSET ids, history : BOOLEAN, delete : BOOLEAN]

AllOk == [select |-> TRUE, failed |-> {}, history |-> TRUE, delete |-> TRUE]

NoneOk == [select |-> FALSE, failed |-> {}, history |-> FALSE, delete |-> FALSE]

(* The compound deletes give the tables they leave, the boolean they       *)
(* return and the requests they made, in order.                            *)

deleteCategory(db, categoryId, outcome) ==
  LET keepRef(catId) == catId # categoryId
      strip(row) == [row EXCEPT !.categories = Filter(row.categories, keepRef)]
      products == {r \in db.products : Includes(r.categories, categoryId)}
      updated == {r \in products : r.id \notin outcome.failed}
      stripped == [db EXCEPT
                     !.products = (db.products \ updated)
                                    \cup {strip(r) : r \in updated}]
      update == IF products # {} THEN <<"products.update">> ELSE <<>>
  IN IF ~outcome.select
     THEN [db |-> db, returned |-> FALSE, calls |-> <<"products.select">>]
     ELSE IF updated # products
     THEN [db |-> stripped, returned |-> FALSE,
           calls |-> <<"products.select">> \o update]
     ELSE [db |-> IF outcome.delete
                  THEN [stripped EXCEPT
                          !.categories = {r \in @ : r.id # categoryId}]
                  ELSE stripped,
           returned |-> outcome.delete,
           calls |-> <<"products.select">> \o update \o <<"categories.delete">>]

deleteProduct(db, productId, outcome) ==
  LET keepItem(item) == item.productId # productId
      strip(row) == [row EXCEPT !.items = Filter(row.items, keepItem)]
      keepHist(row) == row.product_id # productId
      sessions == IF outcome.select THEN db.sessions ELSE {}
      holding == {r \in sessions :
                    \E i \in 1..Len(r.items) : r.items[i].productId = productId}
      updated == {r \in holding : r.id \notin outcome.failed}
  IN [db |-> [db EXCEPT
                !.sessions = (db.sessions \ updated) \cup {strip(r) : r \in updated},
                !.order_history = IF outcome.history THEN Filter(@, keepHist)
                                  ELSE @,
                !.products = IF outcome.delete
                             THEN {r \in @ : r.id # productId} ELSE @],
      returned |-> outcome.delete,
      calls |-> <<"sessions.select">>
                \o (IF holding # {} THEN <<"sessions.update">> ELSE <<>>)
                \o <<"order_history.delete", "products.delete">>]

orderHistoryRow(item) ==
  [session_id |-> item.sessionId, product_id |-> item.productId,
   location_id |-> item.locationId, order_date |-> item.orderDate,
   quantity_ordered |-> IF item.quantityOrdered = Undefined THEN Null
                        ELSE item.quantityOrdered,
   suppliers |-> item.suppliers, category_ids |-> item.categoryIds]

getOrderHistory(db) ==
  LET conv(row) ==
        [productId |-> row.product_id, locationId |-> row.location_id,
         orderDate |-> row.order_date, quantityOrdered |-> row.quantity_ordered,
         sessionId |-> row.session_id, suppliers |-> row.suppliers,
         categoryIds |-> row.category_ids]
  IN Map(OrderByDateDesc(db.order_history), conv)

(* every call inserts new rows: the generated id ends in Date.now() *)
addOrderHistoryItems(db, items) ==
  [db EXCEPT !.order_history =
               Concat(db.order_history, Map(items, orderHistoryRow))]

syncFromDatabase(db) ==
  [locations |-> getLocations(db), categories |-> getCategories(db),
   suppliers |-> getSuppliers(db), products |-> getProducts(db),
   sessions |-> getSessions(db), orderHistory |-> getOrderHistory(db)]

----------------------------------------------------------------------------
(* Screens *)

Trim(userName) == IF userName = " " THEN "" ELSE userName

(* AppContent: hasActiveSession *)
hasActiveSession(st) ==
  st.currentSession # NoSession /\ ~st.currentSession.isSubmitted

(* InventoryScreen: products available at the location of the session *)
availableProducts(st) ==
  LET cs == st.currentSession
      here(loc) == loc.locationId = cs.locationId /\ loc.isAvailable
      avail(product) == \E i \in 1..Len(product.locations) : here(product.locations[i])
  IN IF cs = NoSession THEN <<>> ELSE Filter(st.products, avail)

(* handleProductUpdate that pushes without looking for an existing item *)
handleProductUpdate_AlwaysPushes(currentSession, productId, quantity, shouldOrder) ==
  [currentSession EXCEPT !.items =
     Append(@, [productId |-> productId,
                locationId |-> currentSession.locationId,
                currentQuantity |-> quantity,
                shouldOrder |-> shouldOrder])]

handleProductUpdate(currentSession, productId, quantity, shouldOrder) ==
  LET match(item) == item.productId = productId
      existingItemIndex == FindIndex(currentSession.items, match)
      newItem == [productId |-> productId,
                  locationId |-> currentSession.locationId,
                  currentQuantity |-> quantity,
                  shouldOrder |-> shouldOrder]
      updatedItems ==
        IF existingItemIndex > 0
        THEN [currentSession.items EXCEPT ![existingItemIndex] = newItem]
        ELSE Append(currentSession.items, newItem)
  IN [currentSession EXCEPT !.items = updatedItems]

(* getItemsToOrder that takes every counted item *)
(* The repository holds ProductCard in two variants, and which of them is  *)
(* the module InventoryScreen imports is not told by the sources: the one  *)
(* that only checks the order box, and the one that also unchecks it and   *)
(* has currentItem and onUpdate among the dependencies of its update       *)
(* effect.                                                                 *)
Variants == {"checkOnly", "checkAndUncheck"}

(* ProductCard: the quantity and shouldOrder of useState, and the values   *)
(* they and the current session had when the effects of the card last ran; *)
(* manual tells that the last use of the checkbox by the user checked it   *)
(* (the code does not read it, it is kept for the properties)              *)
NoCard ==
  [mounted |-> FALSE, variant |-> "none", quantity |-> 0, shouldOrder |-> FALSE,
   ran |-> FALSE, ranQuantity |-> 0, ranShouldOrder |-> FALSE,
   ranSession |-> NoSession, manual |-> FALSE]

(* useState(currentItem?.currentQuantity || 0) and                         *)
(* useState(currentItem?.shouldOrder || false)                             *)
mountedCard(variant, session, productId) ==
  LET at == {i \in 1..Len(session.items) : session.items[i].productId = productId}
      currentItem == session.items[CHOOSE i \in at : \A j \in at : i <= j]
  IN [NoCard EXCEPT
        !.mounted = TRUE,
        !.variant = variant,
        !.quantity = IF at = {} \/ currentItem.currentQuantity = Undefined
                     THEN 0 ELSE currentItem.currentQuantity,
        !.shouldOrder = at # {} /\ currentItem.shouldOrder]

(* productLocation?.minThreshold || 0 *)
minThreshold(product, locationId) ==
  LET at == {i \in 1..Len(product.locations) :
               product.locations[i].locationId = locationId}
      productLocation == product.locations[CHOOSE i \in at : \A j \in at : i <= j]
  IN IF at = {} \/ productLocation.minThreshold = Undefined THEN 0
     ELSE productLocation.minThreshold

(* the guard of the update effect: the second variant calls onUpdate only  *)
(* when the session holds an item of the product or the box is checked     *)
updateGuard(card, session, productId) ==
  \/ card.variant = "checkOnly"
  \/ card.shouldOrder
  \/ \E i \in 1..Len(session.items) : session.items[i].productId = productId

(* a card whose state differs from the dependencies its effects last saw;  *)
(* currentItem and onUpdate are new whenever the current session is, and a *)
(* run of the update effect that finds the session as its last run left it *)
(* dispatches the same session again: such a run is not followed           *)
effectsPending(card, session, productId) ==
  /\ card.mounted
  /\ \/ ~card.ran
     \/ card.quantity # card.ranQuantity
     \/ card.shouldOrder # card.ranShouldOrder
     \/ /\ card.variant = "checkAndUncheck"
        /\ session # NoSession
        /\ session # card.ranSession
        /\ updateGuard(card, session, productId)

(* the dependencies of the effect that sets shouldOrder have changed *)
autoRuns(card) ==
  \/ ~card.ran
  \/ card.quantity # card.ranQuantity
  \/ card.variant = "checkAndUncheck" /\ card.shouldOrder # card.ranShouldOrder

(* the auto-check effect: it runs when quantity has changed and sets       *)
(* shouldOrder when the quantity is below the threshold                    *)
autoCheck(card, product, locationId) ==
  /\ autoRuns(card)
  /\ product.requiresQuantity
  /\ card.quantity < minThreshold(product, locationId)

(* the second variant: a checked box is unchecked when the quantity is at  *)
(* or above the threshold                                                  *)
autoUncheck(card, product, locationId) ==
  /\ card.variant = "checkAndUncheck"
  /\ autoRuns(card)
  /\ product.requiresQuantity
  /\ card.quantity >= minThreshold(product, locationId)
  /\ card.shouldOrder

getItemsToOrder_All(session) == session.items

getItemsToOrder(session) ==
  LET marked(item) == item.shouldOrder
  IN Filter(session.items, marked)

(* the OrderHistoryItem list built by handleSubmitOrder / handleSubmitDraft *)
orderHistoryItems(st, session, itemsToOrder, orderDate) ==
  LET build(item) ==
        LET known == Has(st.products, item.productId)
            product == Find(st.products, item.productId)
            mine(s) == known /\ Includes(product.suppliers, s.id)
            nameOf(s) == s.name
            suppliers == Map(Filter(st.suppliers, mine), nameOf)
        IN [productId |-> item.productId,
            locationId |-> item.locationId,
            orderDate |-> orderDate,
            quantityOrdered |-> item.currentQuantity,
            sessionId |-> session.id,
            suppliers |-> IF Len(suppliers) > 0 THEN suppliers
                          ELSE <<"Unknown Supplier">>,
            categoryIds |-> IF known THEN product.categories ELSE <<>>]
  IN Map(itemsToOrder, build)

(* the submitted copy without its end date *)
submittedSession_NoEndDate(session, orderDate) ==
  [session EXCEPT !.isSubmitted = TRUE]

submittedSession(session, orderDate) ==
  [session EXCEPT !.endDate = orderDate, !.isSubmitted = TRUE]

----------------------------------------------------------------------------
(* syncWithSupabase *)

NoData ==
  [locations |-> <<>>, categories |-> <<>>, suppliers |-> <<>>,
   products |-> <<>>, sessions |-> <<>>, orderHistory |-> <<>>]

(* caller is the function that awaits the call; state is the AppState in   *)
(* the closure the call runs in; invoked is the                            *)
(* store at the moment of the call, upsertFailed tells whether an upsert   *)
(* returned false and landed holds the session and product of every item   *)
(* upsert made during the push phase: the code reads none of the three,    *)
(* they are kept for the properties.                                       *)
Idle ==
  [pc |-> "idle", caller |-> "none", forcePullFirst |-> FALSE,
   state |-> initialState,
   invoked |-> initialState, data |-> NoData, upsertFailed |-> FALSE,
   landed |-> {}]

PushPhase ==
  {"pushLocations", "pushCategories", "pushSuppliers", "pushProducts",
   "pushSessions", "pushOrderHistory", "pushSettings"}

Started(caller, forcePullFirst, captured, invoked) ==
  [pc |-> "testConnection", caller |-> caller, forcePullFirst |-> forcePullFirst,
   state |-> captured, invoked |-> invoked, data |-> NoData,
   upsertFailed |-> FALSE, landed |-> {}]

(* the tombstone filters *)
filteredSessions(data, l) ==
  LET keep(session) == session.id \notin l.sessions.simple
  IN Filter(data.sessions, keep)

(* the order history passed on as fetched *)
filteredOrderHistory_Unfiltered(data, l) == data.orderHistory

filteredOrderHistory(data, l) ==
  LET keep(item) == item.sessionId \notin l.sessions.simple
  IN Filter(data.orderHistory, keep)

filteredCategories(data, l) ==
  LET keep(category) == category.id \notin l.categories.simple
  IN Filter(data.categories, keep)

(* the product filter left out *)
filteredProducts_Unfiltered(data, l) == data.products

filteredProducts(data, l) ==
  LET keep(product) == product.id \notin l.products.simple
  IN Filter(data.products, keep)

(* the six dispatches *)
dispatchAll(st, data, l) ==
  LET s1 == SET_LOCATIONS(st, data.locations)
      s2 == SET_CATEGORIES(s1, filteredCategories(data, l))
      s3 == SET_SUPPLIERS(s2, data.suppliers)
      s4 == SET_PRODUCTS(s3, filteredProducts(data, l))
      s5 == SET_SESSIONS(s4, filteredSessions(data, l))
  IN SET_ORDER_HISTORY(s5, filteredOrderHistory(data, l))

(* the email keys written to localStorage when app_settings holds them *)
saveEmailSettings(l, settings) ==
  [l EXCEPT !.emailKeys = @ \/ settings, !.emailConfig = @ \/ settings]

(* the clean-up that sweeps the timestamped lists alone *)
cleanupDeleted_KeepsSimple(l, t) ==
  LET cleanupThreshold == t - RetentionDays
      valid(kind) == {entry \in l[kind].stamped : entry.timestamp > cleanupThreshold}
      sweep(kind) == [simple |-> l[kind].simple, stamped |-> valid(kind)]
  IN [l EXCEPT !.sessions = sweep("sessions"),
               !.categories = sweep("categories"),
               !.products = sweep("products")]

(* the clean-up of the tombstone lists at the end of a push-then-pull *)
cleanupDeleted(l, t) ==
  LET cleanupThreshold == t - RetentionDays
      valid(kind) == {entry \in l[kind].stamped : entry.timestamp > cleanupThreshold}
      sweep(kind) == [simple |-> {entry.id : entry \in valid(kind)},
                      stamped |-> valid(kind)]
  IN [l EXCEPT !.sessions = sweep("sessions"),
               !.categories = sweep("categories"),
               !.products = sweep("products")]

(* the guard left out *)
autoSyncAllowed_Always(st) == TRUE

(* the guard of the periodic and focus effects and of autoSyncWithSupabase *)
autoSyncAllowed(st) ==
  st.currentSession = NoSession \/ st.currentSession.isSubmitted

----------------------------------------------------------------------------
(* Initial state: loadInitialData has dispatched the cached collections    *)
(* and, when Supabase is configured, has entered the startup auto-sync.    *)
(* That call runs in the closure of the first render, whose state is       *)
(* initialState.                                                           *)

cachedState ==
  [initialState EXCEPT !.locations = <<Loc(1)>>,
                       !.categories = <<Cat(1)>>,
                       !.suppliers = <<Sup(1)>>,
                       !.products = <<Prod(1)>>]

SeededRemote ==
  [locations |-> {locationRow(Loc(1))},
   categories |-> {categoryRow(Cat(1))},
   suppliers |-> {supplierRow(Sup(1))},
   products |-> {productRow(Prod(1))},
   sessions |-> {},
   order_history |-> <<>>,
   app_settings |-> FALSE]

NoDeleted == [simple |-> {}, stamped |-> {}]

InitWith(remotes, supabases, emailKeys, emailConfigs) ==
  /\ state = cachedState
  /\ remote \in remotes
  /\ \E supabase \in supabases, keys \in emailKeys, config \in emailConfigs :
       ls = [sessions |-> NoDeleted, categories |-> NoDeleted,
             products |-> NoDeleted, supabase |-> supabase,
             emailKeys |-> keys, emailConfig |-> config]
  /\ sync = IF ls.supabase
            THEN Started("autoSyncWithSupabase", FALSE, initialState, state)
            ELSE Idle
  /\ eff = state
  /\ fresh = [session |-> 0, category |-> 1, product |-> 1]
  /\ now = 0
  /\ error = "null"
  /\ cards = [productId \in ProductIds |-> NoCard]
  /\ last = [op |-> "loadInitialData", gw |-> "none", res |-> "ok",
             calls |-> <<>>, shown |-> ""]

Init == InitWith({EmptyRemote, SeededRemote}, BOOLEAN, BOOLEAN, BOOLEAN)

(* calls are the requests a compound delete of the gateway made *)
Called(op, gw, res, calls) ==
  last' = [op |-> op, gw |-> gw, res |-> res, calls |-> calls, shown |-> ""]

Done(op, gw, res) == Called(op, gw, res, <<>>)

(* what the function that awaited syncWithSupabase shows when the promise  *)
(* settles: the handlers of the Settings screen set their result message,  *)
(* autoSyncWithSupabase only logs                                          *)
resultMessage(caller, rejected) ==
  IF caller = "handleSyncWithSupabase"
  THEN IF rejected THEN "Sync failed" ELSE "Sync with Supabase successful!"
  ELSE IF caller = "handlePullFromDatabase"
  THEN IF rejected THEN "Pull failed"
       ELSE "Successfully pulled latest data from database!"
  ELSE ""

(* syncWithSupabase returns: its catch has taken every throw, so the       *)
(* promise resolves                                                        *)
Returned(caller, op, gw, res) ==
  last' = [op |-> op, gw |-> gw, res |-> res, calls |-> <<>>,
           shown |-> resultMessage(caller, FALSE)]

----------------------------------------------------------------------------
(* Screen handlers *)

StartSession(userName, selectedLocationId) ==
  /\ ~hasActiveSession(state)
  /\ fresh.session + 1 \in SessionIds
  /\ IF Trim(userName) = "" \/ selectedLocationId = 0
     THEN /\ UNCHANGED <<state, eff, fresh>>
          /\ Done("handleStartSession", "none", "error")
     ELSE LET newSession ==
                [id |-> fresh.session + 1,
                 locationId |-> selectedLocationId,
                 userName |-> Trim(userName),
                 startDate |-> StartDate,
                 endDate |-> Undefined,
                 items |-> <<>>,
                 isSubmitted |-> FALSE]
          IN /\ state' = SET_CURRENT_SESSION(state, newSession)
             /\ eff' = state'
             /\ fresh' = [fresh EXCEPT !.session = @ + 1]
             /\ Done("handleStartSession", "none", "ok")
  /\ UNCHANGED <<remote, ls, sync, now, error, cards>>

LoadDraft(sessionId) ==
  /\ Has(state.sessions, sessionId)
  /\ ~Find(state.sessions, sessionId).isSubmitted
  /\ state' = SET_CURRENT_SESSION(state, Find(state.sessions, sessionId))
  /\ \/ eff' = state'
     \/ /\ state'.currentSession = state.currentSession
        /\ eff' = eff
  /\ Done("handleLoadDraft", "none", "ok")
  /\ UNCHANGED <<remote, ls, sync, fresh, now, error, cards>>

EndSession ==
  /\ state.currentSession # NoSession
  /\ state.currentSession.isSubmitted
  /\ state' = SET_CURRENT_SESSION(state, NoSession)
  /\ eff' = state'
  /\ Done("onSessionEnd", "none", "ok")
  /\ UNCHANGED <<remote, ls, sync, fresh, now, error, cards>>

UpsertItem(productId, quantity, shouldOrder) ==
  /\ hasActiveSession(state)
  /\ Has(state.locations, state.currentSession.locationId)
  /\ Has(availableProducts(state), productId)
  /\ IF Find(state.products, productId).requiresQuantity
     THEN quantity \in Quantities
     ELSE quantity = Undefined
  /\ state' = UPDATE_SESSION(state,
                handleProductUpdate(state.currentSession, productId,
                                    quantity, shouldOrder))
  /\ eff' = state'
  /\ sync' = IF sync.pc \in PushPhase
             THEN [sync EXCEPT !.landed = @ \cup
                     {[sessionId |-> state.currentSession.id,
                       productId |-> productId]}]
             ELSE sync
  /\ Done("handleProductUpdate", "none",
          IF \E i \in 1..Len(state.currentSession.items) :
               state.currentSession.items[i].productId = productId
          THEN "replaced" ELSE "appended")
  /\ UNCHANGED <<remote, ls, fresh, now, error, cards>>

(* ProductCard.  React runs the effects of a commit before it handles the  *)
(* next event, so the handlers wait for the pending effects.               *)

anyPending ==
  \E productId \in ProductIds :
    effectsPending(cards[productId], state.currentSession, productId)

(* InventoryScreen renders a card for every available product *)
MountCards ==
  LET shown == Ids(availableProducts(state))
  IN /\ hasActiveSession(state)
     /\ Has(state.locations, state.currentSession.locationId)
     /\ ~anyPending
     /\ \E productId \in shown : ~cards[productId].mounted
     /\ \E variant \in Variants :
          /\ \A productId \in ProductIds :
               cards[productId].variant \in {"none", variant}
          /\ cards' = [productId \in ProductIds |->
                         IF productId \in shown /\ ~cards[productId].mounted
                         THEN mountedCard(variant, state.currentSession, productId)
                         ELSE [cards[productId] EXCEPT !.variant = variant]]
     /\ Done("ProductCard", "none", "mounted")
     /\ UNCHANGED <<state, remote, ls, sync, eff, fresh, now, error>>

(* the user leaves the inventory screen *)
UnmountCards ==
  /\ ~anyPending
  /\ \E productId \in ProductIds : cards[productId].mounted
  /\ cards' = [productId \in ProductIds |->
                 [NoCard EXCEPT !.variant = cards[productId].variant]]
  /\ Done("ProductCard", "none", "unmounted")
  /\ UNCHANGED <<state, remote, ls, sync, eff, fresh, now, error>>

handleQuantityChange(productId, newQuantity) ==
  LET validQuantity == IF newQuantity < 0 THEN 0 ELSE newQuantity
  IN /\ ~anyPending
     /\ cards[productId].mounted
     /\ Has(state.products, productId)
     /\ Find(state.products, productId).requiresQuantity
     /\ cards' = [cards EXCEPT ![productId].quantity = validQuantity]
     /\ Done("handleQuantityChange", "none", "ok")
     /\ UNCHANGED <<state, remote, ls, sync, eff, fresh, now, error>>

(* the Checkbox hands over the opposite of the value it shows *)
handleOrderChange(productId, checked) ==
  /\ ~anyPending
  /\ cards[productId].mounted
  /\ checked # cards[productId].shouldOrder
  /\ cards' = [cards EXCEPT ![productId].shouldOrder = checked,
                            ![productId].manual = checked]
  /\ Done("handleOrderChange", "none", "ok")
  /\ UNCHANGED <<state, remote, ls, sync, eff, fresh, now, error>>

(* the update effects of one commit: each calls the onUpdate of the render *)
(* it belongs to, whose currentSession is the one of that render           *)
RECURSIVE updateParent(_, _, _)
updateParent(st, currentSession, productIds) ==
  IF productIds = <<>> THEN st
  ELSE LET productId == Head(productIds)
           card == cards[productId]
           quantity == IF Find(st.products, productId).requiresQuantity
                       THEN card.quantity ELSE Undefined
       IN updateParent(
            IF updateGuard(card, currentSession, productId)
            THEN UPDATE_SESSION(st, handleProductUpdate(currentSession, productId,
                                                        quantity, card.shouldOrder))
            ELSE st,
            currentSession, Tail(productIds))

(* the effects of the cards whose dependencies changed in the last render *)
FlushEffects ==
  LET pending(product) ==
        effectsPending(cards[product.id], state.currentSession, product.id)
      idOf(product) == product.id
      productIds == Map(Filter(state.products, pending), idOf)
      locationId == state.currentSession.locationId
  IN /\ state.currentSession # NoSession
     /\ productIds # <<>>
     /\ state' = updateParent(state, state.currentSession, productIds)
     /\ cards' = [productId \in ProductIds |->
                    IF Includes(productIds, productId)
                    THEN [cards[productId] EXCEPT
                            !.shouldOrder =
                               /\ @ \/ autoCheck(cards[productId],
                                                 Find(state.products, productId),
                                                 locationId)
                               /\ ~autoUncheck(cards[productId],
                                               Find(state.products, productId),
                                               locationId),
                            !.ran = TRUE,
                            !.ranQuantity = cards[productId].quantity,
                            !.ranShouldOrder = cards[productId].shouldOrder,
                            !.ranSession =
                               IF cards[productId].variant = "checkAndUncheck"
                               THEN state.currentSession ELSE NoSession]
                    ELSE cards[productId]]
     /\ eff' = state'
     /\ Done("ProductCard", "none", "updated")
     /\ UNCHANGED <<remote, ls, sync, fresh, now, error>>

(* the part of both submit handlers after the session has been chosen;    *)
(* a submission that would take the order history past MaxHistory is left *)
(* out                                                                     *)
Submit(op, session, configured, emailSent) ==
  LET itemsToOrder == getItemsToOrder(session)
  IN /\ IF itemsToOrder = <<>>
        THEN /\ UNCHANGED <<state, eff>>
             /\ Done(op, "none", "noItems")
        ELSE IF ~Has(state.locations, session.locationId)
        THEN /\ UNCHANGED <<state, eff>>
             /\ Done(op, "none", "noLocation")
        ELSE IF ~configured
        THEN /\ UNCHANGED <<state, eff>>
             /\ Done(op, "none", "noEmailConfig")
        ELSE IF ~emailSent
        THEN /\ UNCHANGED <<state, eff>>
             /\ Done(op, "sendOrderEmail", "emailFailed")
        ELSE /\ Len(state.orderHistory) + Len(itemsToOrder) <= MaxHistory
             /\ state' = UPDATE_SESSION(
                           ADD_ORDER_HISTORY_ITEMS(state,
                             orderHistoryItems(state, session, itemsToOrder, OrderDate)),
                           submittedSession(session, OrderDate))
             /\ eff' = IF state.currentSession.id = session.id THEN state' ELSE eff
             /\ Done(op, "sendOrderEmail", "ok")
     /\ UNCHANGED <<remote, ls, sync, fresh, now, error, cards>>

(* handleSubmitOrder that reads neither the email keys nor the result of *)
(* the send                                                              *)
SubmitOrder_Optimistic(emailSent) ==
  /\ hasActiveSession(state)
  /\ Has(state.locations, state.currentSession.locationId)
  /\ Submit("handleSubmitOrder", state.currentSession, TRUE, TRUE)

SubmitOrder(emailSent) ==
  /\ hasActiveSession(state)
  /\ Has(state.locations, state.currentSession.locationId)
  /\ Submit("handleSubmitOrder", state.currentSession, ls.emailKeys, emailSent)

SubmitDraft(sessionId, emailSent) ==
  /\ Has(state.sessions, sessionId)
  /\ ~Find(state.sessions, sessionId).isSubmitted
  /\ Submit("handleSubmitDraft", Find(state.sessions, sessionId),
            ls.emailConfig, emailSent)

DeleteSession(sessionId, success) ==
  /\ Has(state.sessions, sessionId)
  /\ IF ls.supabase
     THEN /\ remote' = IF success THEN deleteSession(remote, sessionId) ELSE remote
          /\ Done("handleConfirmDelete", "deleteSession",
                  IF success THEN "ok" ELSE "failed")
     ELSE /\ success
          /\ UNCHANGED remote
          /\ Done("handleConfirmDelete", "none", "ok")
  /\ state' = DELETE_SESSION(state, sessionId)
  /\ ls' = pushDeleted(ls, "sessions", sessionId, now)
  /\ UNCHANGED <<sync, eff, fresh, now, error, cards>>

AddCategory ==
  /\ fresh.category + 1 \in CategoryIds
  /\ state' = ADD_CATEGORY(state, Cat(fresh.category + 1))
  /\ fresh' = [fresh EXCEPT !.category = @ + 1]
  /\ Done("handleAddCategory", "none", "ok")
  /\ UNCHANGED <<remote, ls, sync, eff, now, error, cards>>

DeleteCategory(categoryId, outcome) ==
  /\ Has(state.categories, categoryId)
  /\ state' = DELETE_CATEGORY(state, categoryId)
  /\ ls' = pushDeleted(ls, "categories", categoryId, now)
  /\ IF ls.supabase
     THEN LET result == deleteCategory(remote, categoryId, outcome)
          IN /\ remote' = result.db
             /\ Called("handleDeleteCategory", "deleteCategory",
                       IF result.returned THEN "ok" ELSE "failed", result.calls)
     ELSE /\ outcome = AllOk
          /\ UNCHANGED remote
          /\ Done("handleDeleteCategory", "none", "ok")
  /\ UNCHANGED <<sync, eff, fresh, now, error, cards>>

AddProduct ==
  /\ fresh.product + 1 \in ProductIds
  /\ state' = ADD_PRODUCT(state, Prod(fresh.product + 1))
  /\ fresh' = [fresh EXCEPT !.product = @ + 1]
  /\ Done("handleAddProduct", "none", "ok")
  /\ UNCHANGED <<remote, ls, sync, eff, now, error, cards>>

DeleteProduct(productId, outcome) ==
  /\ Has(state.products, productId)
  /\ state' = DELETE_PRODUCT(state, productId)
  /\ ls' = pushDeleted(ls, "products", productId, now)
  /\ eff' = IF state.currentSession # NoSession THEN state' ELSE eff
  /\ IF ls.supabase
     THEN LET result == deleteProduct(remote, productId, outcome)
          IN /\ remote' = result.db
             /\ Called("handleDeleteProduct", "deleteProduct",
                       IF result.returned THEN "ok" ELSE "failed", result.calls)
     ELSE /\ outcome = AllOk
          /\ UNCHANGED remote
          /\ Done("handleDeleteProduct", "none", "ok")
  /\ UNCHANGED <<sync, fresh, now, error, cards>>

(* time passing shows only in the age of a tombstone: one retention period *)
(* goes by                                                                 *)
Tick ==
  /\ now < MaxTicks * RetentionDays
  /\ \E kind \in {"sessions", "categories", "products"} : ls[kind].stamped # {}
  /\ now' = now + RetentionDays
  /\ Done("tick", "none", "ok")
  /\ UNCHANGED <<state, remote, ls, sync, eff, fresh, error, cards>>

----------------------------------------------------------------------------
(* Sync triggers and the steps of syncWithSupabase between its awaits.     *)
(* One call is followed at a time.                                         *)

ExplicitSync(forcePullFirst) ==
  LET caller == IF forcePullFirst THEN "handlePullFromDatabase"
                ELSE "handleSyncWithSupabase"
  IN
  /\ sync.pc = "idle"
  /\ IF ls.supabase
     THEN /\ sync' = Started(caller, forcePullFirst, state, state)
          /\ error' = "null"
          /\ Done("handleSync", "none", "started")
     ELSE /\ UNCHANGED sync
          /\ error' = "Supabase not configured"
          /\ Returned(caller, "handleSync", "none", "error")
  /\ UNCHANGED <<state, remote, ls, eff, fresh, now, cards>>

AutoSync(trigger) ==
  IF ~autoSyncAllowed(eff)
  THEN /\ Done(trigger, "none", "skipped")
       /\ UNCHANGED <<state, remote, ls, sync, eff, fresh, now, error, cards>>
  ELSE IF ~ls.supabase
  THEN /\ Done(trigger, "none", "notConfigured")
       /\ UNCHANGED <<state, remote, ls, sync, eff, fresh, now, error, cards>>
  ELSE /\ sync.pc = "idle"
       /\ sync' = Started("autoSyncWithSupabase", FALSE, eff, state)
       /\ error' = "null"
       /\ Done(trigger, "none", "started")
       /\ UNCHANGED <<state, remote, ls, eff, fresh, now, cards>>

(* testConnection that lets the call go on after a failure *)
TestConnection_Continues(initialized, connectionTest) ==
  /\ sync.pc = "testConnection"
  /\ sync' = [sync EXCEPT !.pc = IF sync.forcePullFirst THEN "fetch"
                                 ELSE "pushLocations"]
  /\ error' = IF initialized /\ connectionTest THEN error
              ELSE "Failed to connect to Supabase database"
  /\ Done("syncWithSupabase", "testConnection",
          IF initialized /\ connectionTest THEN "ok" ELSE "error")
  /\ UNCHANGED <<state, remote, ls, eff, fresh, now, cards>>

(* initialize and testConnection *)
TestConnection(initialized, connectionTest) ==
  /\ sync.pc = "testConnection"
  /\ IF ~initialized
     THEN /\ sync' = Idle
          /\ error' = "Failed to initialize Supabase connection"
          /\ Returned(sync.caller, "syncWithSupabase", "initialize", "error")
     ELSE IF ~connectionTest
     THEN /\ sync' = Idle
          /\ error' = "Failed to connect to Supabase database"
          /\ Returned(sync.caller, "syncWithSupabase", "testConnection", "error")
     ELSE /\ sync' = [sync EXCEPT !.pc = IF sync.forcePullFirst THEN "fetch"
                                         ELSE "pushLocations"]
          /\ UNCHANGED error
          /\ Done("syncWithSupabase", "testConnection", "ok")
  /\ UNCHANGED <<state, remote, ls, eff, fresh, now, cards>>

(* one for-loop of the push phase; okIds are the entities whose upsert    *)
(* returned true                                                           *)
PushCollection(pc, nextPc, tbl, coll, Row(_), okIds) ==
  LET ok(entity) == entity.id \in okIds
  IN /\ sync.pc = pc
     /\ remote' = [remote EXCEPT ![tbl] = UpsertRows(@, Map(Filter(coll, ok), Row))]
     /\ sync' = [sync EXCEPT !.pc = nextPc,
                             !.upsertFailed = @ \/ okIds # Ids(coll)]
     /\ Done("syncWithSupabase", IF coll = <<>> THEN "none" ELSE "upsert", pc)
     /\ UNCHANGED <<state, ls, eff, fresh, now, error, cards>>

PushLocations ==
  \E okIds \in SUBSET Ids(sync.state.locations) :
    PushCollection("pushLocations", "pushCategories", "locations",
                   sync.state.locations, locationRow, okIds)

PushCategories ==
  \E okIds \in SUBSET Ids(sync.state.categories) :
    PushCollection("pushCategories", "pushSuppliers", "categories",
                   sync.state.categories, categoryRow, okIds)

PushSuppliers ==
  \E okIds \in SUBSET Ids(sync.state.suppliers) :
    PushCollection("pushSuppliers", "pushProducts", "suppliers",
                   sync.state.suppliers, supplierRow, okIds)

PushProducts ==
  \E okIds \in SUBSET Ids(sync.state.products) :
    PushCollection("pushProducts", "pushSessions", "products",
                   sync.state.products, productRow, okIds)

PushSessions ==
  \E okIds \in SUBSET Ids(sync.state.sessions) :
    PushCollection("pushSessions", "pushOrderHistory", "sessions",
                   sync.state.sessions, sessionRow, okIds)

(* an insert that would take the table past MaxHistory is left out *)
PushOrderHistory(success) ==
  /\ sync.pc = "pushOrderHistory"
  /\ IF Len(sync.state.orderHistory) > 0
     THEN /\ success =>
               Len(remote.order_history) + Len(sync.state.orderHistory) <= MaxHistory
          /\ remote' = IF success
                       THEN addOrderHistoryItems(remote, sync.state.orderHistory)
                       ELSE remote
          /\ sync' = [sync EXCEPT !.pc = "pushSettings",
                                  !.upsertFailed = @ \/ ~success]
          /\ Done("syncWithSupabase", "addOrderHistoryItems", "pushOrderHistory")
     ELSE /\ success
          /\ UNCHANGED remote
          /\ sync' = [sync EXCEPT !.pc = "pushSettings"]
          /\ Done("syncWithSupabase", "none", "pushOrderHistory")
  /\ UNCHANGED <<state, ls, eff, fresh, now, error, cards>>

(* the three upsertAppSetting calls, made when the email keys are set *)
PushSettings(success) ==
  /\ sync.pc = "pushSettings"
  /\ IF ls.emailKeys
     THEN /\ remote' = [remote EXCEPT !.app_settings = @ \/ success]
          /\ Done("syncWithSupabase", "upsertAppSetting", "pushSettings")
     ELSE /\ success
          /\ UNCHANGED remote
          /\ Done("syncWithSupabase", "none", "pushSettings")
  /\ sync' = [sync EXCEPT !.pc = "fetch"]
  /\ UNCHANGED <<state, ls, eff, fresh, now, error, cards>>

(* the six reads that syncFromDatabase awaits together *)
Gets ==
  {"getLocations", "getCategories", "getSuppliers", "getProducts",
   "getSessions", "getOrderHistory"}

(* syncFromDatabase that returns what was read, with an empty list for the *)
(* read that threw                                                         *)
Fetch_Settled(rejected) ==
  LET all == syncFromDatabase(remote)
  IN /\ sync.pc = "fetch"
     /\ sync' = [sync EXCEPT
                   !.pc = "publish",
                   !.data = [all EXCEPT
                     !.locations = IF rejected = "getLocations" THEN <<>> ELSE @,
                     !.categories = IF rejected = "getCategories" THEN <<>> ELSE @,
                     !.suppliers = IF rejected = "getSuppliers" THEN <<>> ELSE @,
                     !.products = IF rejected = "getProducts" THEN <<>> ELSE @,
                     !.sessions = IF rejected = "getSessions" THEN <<>> ELSE @,
                     !.orderHistory =
                        IF rejected = "getOrderHistory" THEN <<>> ELSE @]]
     /\ error' = IF rejected = "none" THEN error
                 ELSE "Failed to sync with Supabase"
     /\ Done("syncWithSupabase", "syncFromDatabase",
             IF rejected = "none" THEN "ok" ELSE "error")
     /\ UNCHANGED <<state, remote, ls, eff, fresh, now, cards>>

(* syncFromDatabase: Promise.all resolves when all six reads have resolved *)
(* and rejects with the first read that throws; rejected is that read, or  *)
(* "none"                                                                  *)
Fetch(rejected) ==
  /\ sync.pc = "fetch"
  /\ IF rejected = "none"
     THEN /\ sync' = [sync EXCEPT !.pc = "publish",
                                  !.data = syncFromDatabase(remote)]
          /\ UNCHANGED error
          /\ Done("syncWithSupabase", "syncFromDatabase", "ok")
     ELSE /\ sync' = Idle
          /\ error' = "Failed to sync with Supabase"
          /\ Returned(sync.caller, "syncWithSupabase", "syncFromDatabase", "error")
  /\ UNCHANGED <<state, remote, ls, eff, fresh, now, cards>>

(* getAppSettings has resolved: filter, dispatch, and after a push the    *)
(* tombstone clean-up                                                      *)
Publish ==
  /\ sync.pc = "publish"
  /\ state' = dispatchAll(state, sync.data, ls)
  /\ ls' = IF sync.forcePullFirst
           THEN saveEmailSettings(ls, remote.app_settings)
           ELSE cleanupDeleted(saveEmailSettings(ls, remote.app_settings), now)
  /\ eff' = IF state.currentSession # NoSession
               /\ Has(state'.sessions, state.currentSession.id)
            THEN state' ELSE eff
  /\ sync' = Idle
  /\ Returned(sync.caller, "syncWithSupabase", "none",
              IF sync.forcePullFirst THEN "pulled" ELSE "synced")
  /\ UNCHANGED <<remote, fresh, now, error, cards>>

----------------------------------------------------------------------------
(* The whole program *)

SyncSteps ==
  \/ \E initialized, connectionTest \in BOOLEAN :
       TestConnection(initialized, connectionTest)
  \/ PushLocations
  \/ PushCategories
  \/ PushSuppliers
  \/ PushProducts
  \/ PushSessions
  \/ \E success \in BOOLEAN : PushOrderHistory(success)
  \/ \E success \in BOOLEAN : PushSettings(success)
  \/ \E rejected \in Gets \cup {"none"} : Fetch(rejected)
  \/ Publish

SyncTriggers ==
  \/ \E forcePullFirst \in BOOLEAN : ExplicitSync(forcePullFirst)
  \/ \E trigger \in {"periodic", "focus"} : AutoSync(trigger)

Next ==
  \/ \E userName \in UserNames, locationId \in {0} \cup Ids(state.locations) :
       StartSession(userName, locationId)
  \/ \E sessionId \in Ids(state.sessions) : LoadDraft(sessionId)
  \/ EndSession
  \/ \E productId \in ProductIds, quantity \in Quantities \cup {Undefined},
        shouldOrder \in BOOLEAN :
       UpsertItem(productId, quantity, shouldOrder)
  \/ \E emailSent \in BOOLEAN : SubmitOrder(emailSent)
  \/ \E sessionId \in Ids(state.sessions), emailSent \in BOOLEAN :
       SubmitDraft(sessionId, emailSent)
  \/ \E sessionId \in Ids(state.sessions), success \in BOOLEAN :
       DeleteSession(sessionId, success)
  \/ AddCategory
  \/ \E categoryId \in CategoryIds, outcome \in Outcomes(ProductIds) :
       DeleteCategory(categoryId, outcome)
  \/ AddProduct
  \/ \E productId \in ProductIds, outcome \in Outcomes(SessionIds) :
       DeleteProduct(productId, outcome)
  \/ Tick
  \/ MountCards
  \/ UnmountCards
  \/ \E productId \in ProductIds, newQuantity \in TypedQuantities :
       handleQuantityChange(productId, newQuantity)
  \/ \E productId \in ProductIds, checked \in BOOLEAN :
       handleOrderChange(productId, checked)
  \/ FlushEffects
  \/ SyncTriggers
  \/ SyncSteps

Spec == Init /\ [][Next]_vars

----------------------------------------------------------------------------
(* The program seen from four sides.  Each specification runs the same     *)
(* actions from the same kind of initial state and leaves out the handlers *)
(* the user does not use in that scenario.                                 *)

(* The store alone: Supabase is not configured, so no reconcile runs. *)
NextStore ==
  \/ \E userName \in UserNames, locationId \in {0} \cup Ids(state.locations) :
       StartSession(userName, locationId)
  \/ \E sessionId \in Ids(state.sessions) : LoadDraft(sessionId)
  \/ EndSession
  \/ \E productId \in ProductIds, quantity \in Quantities \cup {Undefined},
        shouldOrder \in BOOLEAN :
       UpsertItem(productId, quantity, shouldOrder)
  \/ \E emailSent \in BOOLEAN : SubmitOrder(emailSent)
  \/ \E sessionId \in Ids(state.sessions), emailSent \in BOOLEAN :
       SubmitDraft(sessionId, emailSent)
  \/ \E sessionId \in Ids(state.sessions), success \in BOOLEAN :
       DeleteSession(sessionId, success)
  \/ AddProduct
  \/ \E productId \in ProductIds, outcome \in {AllOk, NoneOk} :
       DeleteProduct(productId, outcome)

SpecStore ==
  InitWith({EmptyRemote}, {FALSE}, {TRUE}, {TRUE}) /\ [][NextStore]_vars

(* Counting and submitting with and without the email configuration. *)
NextSubmit ==
  \/ \E userName \in UserNames, locationId \in {0} \cup Ids(state.locations) :
       StartSession(userName, locationId)
  \/ \E sessionId \in Ids(state.sessions) : LoadDraft(sessionId)
  \/ EndSession
  \/ \E productId \in ProductIds, quantity \in Quantities \cup {Undefined},
        shouldOrder \in BOOLEAN :
       UpsertItem(productId, quantity, shouldOrder)
  \/ \E emailSent \in BOOLEAN : SubmitOrder(emailSent)
  \/ \E sessionId \in Ids(state.sessions), emailSent \in BOOLEAN :
       SubmitDraft(sessionId, emailSent)
  \/ AddProduct

SpecSubmit ==
  InitWith({EmptyRemote}, {FALSE}, BOOLEAN, BOOLEAN) /\ [][NextSubmit]_vars

(* Counting on the product cards of the inventory screen. *)
NextCards ==
  \/ \E userName \in UserNames, locationId \in {0} \cup Ids(state.locations) :
       ~anyPending /\ StartSession(userName, locationId)
  \/ ~anyPending /\ AddProduct
  \/ MountCards
  \/ UnmountCards
  \/ \E productId \in ProductIds, newQuantity \in TypedQuantities :
       handleQuantityChange(productId, newQuantity)
  \/ \E productId \in ProductIds, checked \in BOOLEAN :
       handleOrderChange(productId, checked)
  \/ FlushEffects

SpecCards ==
  InitWith({EmptyRemote}, {FALSE}, {TRUE}, {TRUE}) /\ [][NextCards]_vars

(* One counting session against the remote: the user counts, submits and  *)
(* deletes while reconciles run.                                           *)
NextSessions ==
  \/ \E userName \in UserNames, locationId \in {0} \cup Ids(state.locations) :
       fresh.session = 0 /\ StartSession(userName, locationId)
  \/ EndSession
  \/ \E productId \in ProductIds, quantity \in {7, Undefined} :
       UpsertItem(productId, quantity, TRUE)
  \/ \E emailSent \in BOOLEAN : SubmitOrder(emailSent)
  \/ \E sessionId \in Ids(state.sessions), success \in BOOLEAN :
       DeleteSession(sessionId, success)
  \/ SyncTriggers
  \/ SyncSteps

SpecSessions ==
  InitWith({SeededRemote}, {TRUE}, {TRUE}, {TRUE}) /\ [][NextSessions]_vars

(* Deletions against a remote on which another device has left a draft.   *)
OtherSession ==
  handleProductUpdate(
    [NoSession EXCEPT !.id = 1, !.locationId = 1, !.userName = "Ana",
                      !.startDate = StartDate],
    1, 7, TRUE)

RemoteWithSession ==
  [SeededRemote EXCEPT !.sessions = {sessionRow(OtherSession)}]

NextTombstones ==
  \/ \E sessionId \in Ids(state.sessions), success \in BOOLEAN :
       DeleteSession(sessionId, success)
  \/ \E productId \in ProductIds, outcome \in {AllOk, NoneOk} :
       DeleteProduct(productId, outcome)
  \/ \E categoryId \in CategoryIds, outcome \in {AllOk, NoneOk} :
       DeleteCategory(categoryId, outcome)
  \/ Tick
  \/ SyncTriggers
  \/ SyncSteps

SpecTombstones ==
  InitWith({RemoteWithSession}, {TRUE}, {TRUE}, {TRUE}) /\ [][NextTombstones]_vars

(* The catalog growing while reconciles run, with Supabase configured or not. *)
NextCatalog ==
  \/ AddCategory
  \/ AddProduct
  \/ SyncTriggers
  \/ SyncSteps

SpecCatalog ==
  InitWith({EmptyRemote, SeededRemote}, BOOLEAN, {TRUE}, {TRUE})
    /\ [][NextCatalog]_vars

(* The compound deletes of the gateway with every way their requests can   *)
(* end, against a remote that holds a draft counting the product.          *)
NextGateway ==
  \/ \E categoryId \in CategoryIds, outcome \in Outcomes(ProductIds) :
       DeleteCategory(categoryId, outcome)
  \/ \E productId \in ProductIds, outcome \in Outcomes(SessionIds) :
       DeleteProduct(productId, outcome)
  \/ AddCategory
  \/ AddProduct

SpecGateway ==
  InitWith({RemoteWithSession}, {TRUE}, {TRUE}, {TRUE}) /\ [][NextGateway]_vars

(* The start screen, up since the application started: its Select holds   *)
(* no location or one the cached list offered, while reconciles replace    *)
(* the locations of the store.                                             *)
NextStart ==
  \/ \E userName \in UserNames, locationId \in {0} \cup Ids(cachedState.locations) :
       fresh.session = 0 /\ StartSession(userName, locationId)
  \/ SyncTriggers
  \/ SyncSteps

SpecStart ==
  InitWith({EmptyRemote, SeededRemote}, {TRUE}, {TRUE}, {TRUE})
    /\ [][NextStart]_vars

(* Two drafts, one started here and one left on the remote by another     *)
(* device, loaded, counted and deleted while the startup reconcile and     *)
(* pulls from the database replace the sessions of the store.              *)
RemoteWithOtherDraft ==
  [SeededRemote EXCEPT !.sessions = {sessionRow([OtherSession EXCEPT !.id = 2])}]

NextDrafts ==
  \/ fresh.session = 0 /\ StartSession("Ana", 1)
  \/ \E sessionId \in Ids(state.sessions) : LoadDraft(sessionId)
  \/ UpsertItem(1, 7, TRUE)
  \/ \E sessionId \in Ids(state.sessions) : DeleteSession(sessionId, TRUE)
  \/ ExplicitSync(TRUE)
  \/ SyncSteps

SpecDrafts ==
  InitWith({RemoteWithOtherDraft}, {TRUE}, {TRUE}, {TRUE}) /\ [][NextDrafts]_vars

----------------------------------------------------------------------------
(* Properties *)

Published == last.op = "syncWithSupabase" /\ last.res \in {"pulled", "synced"}

Collections == {"locations", "categories", "suppliers", "products", "sessions"}

(* C1: when a reconcile of either mode completes, the categories, products *)
(* and sessions of the store hold no entity whose id was on the matching   *)
(* tombstone list when the reconcile filtered, whatever the fetch returned. *)
C1_TombstoneExclusion ==
  [][Publish =>
       /\ \A id \in ls.categories.simple : ~Has(state'.categories, id)
       /\ \A id \in ls.products.simple : ~Has(state'.products, id)
       /\ \A id \in ls.sessions.simple : ~Has(state'.sessions, id)]_vars

(* a reconcile has completed while the remote still held a tombstoned      *)
(* product and a tombstoned session                                        *)
C1_Witness ==
  /\ Published
  /\ \E row \in remote.products :
       row.id \in ls.products.simple /\ ~Has(state.products, row.id)
  /\ \E row \in remote.sessions :
       row.id \in ls.sessions.simple /\ ~Has(state.sessions, row.id)

(* C2: a current session whose id is not in the session list a reconcile   *)
(* dispatches is the same value after the reconcile as before it.          *)
C2_CurrentSessionPreserved ==
  [][(/\ Publish
      /\ state.currentSession # NoSession
      /\ ~Has(filteredSessions(sync.data, ls), state.currentSession.id))
       => state'.currentSession = state.currentSession]_vars

(* a reconcile has completed, the current session is set and the           *)
(* dispatched session list does not hold it                                *)
C2_Witness ==
  /\ Published
  /\ state.currentSession # NoSession
  /\ state.currentSession.items # <<>>
  /\ ~Has(state.sessions, state.currentSession.id)

(* C3: a current session whose id is in the tombstone-filtered session     *)
(* list of a reconcile equals, after the reconcile, the fetched session of *)
(* that id.                                                                *)
C3_CurrentSessionAdopted ==
  [][(/\ Publish
      /\ state.currentSession # NoSession
      /\ Has(filteredSessions(sync.data, ls), state.currentSession.id))
       => state'.currentSession =
            Find(filteredSessions(sync.data, ls), state.currentSession.id)]_vars

(* a reconcile has completed and the current draft is the remote's version *)
(* of it: its end date is the '' the gateway reads for a null column       *)
C3_Witness ==
  /\ Published
  /\ state.currentSession # NoSession
  /\ Has(state.sessions, state.currentSession.id)
  /\ state.currentSession.endDate = EmptyString
  /\ state.currentSession.items # <<>>

(* C4: when the periodic timer or the focus handler fires while the        *)
(* current session is an unsubmitted draft, the store is unchanged, the    *)
(* remote is unchanged and no syncWithSupabase call is entered, so that no *)
(* gateway method is called.                                               *)
C4_NoAutoSyncDuringDraft ==
  [][((\E trigger \in {"periodic", "focus"} : AutoSync(trigger))
        /\ hasActiveSession(state))
       => /\ UNCHANGED <<state, remote, sync>>
          /\ last'.gw = "none"]_vars

(* a trigger has fired during a draft, with Supabase configured *)
C4_Witness ==
  /\ last.op \in {"periodic", "focus"}
  /\ last.res = "skipped"
  /\ ls.supabase
  /\ hasActiveSession(state)
  /\ sync.pc = "idle"

Tombstoned(kind, id) ==
  kind \in {"categories", "products", "sessions"} /\ id \in ls[kind].simple

(* C5: every location, category, supplier, product and session that was in *)
(* the store when a push-then-pull reconcile was invoked is, when all       *)
(* upserts and the fetch succeeded and the entity is not tombstoned, in the *)
(* store with the same field values when the reconcile completes.          *)
C5_LocalChangesKept ==
  [][(Publish /\ ~sync.forcePullFirst /\ ~sync.upsertFailed)
       => \A kind \in Collections :
            \A entity \in Range(sync.invoked[kind]) :
              ~Tombstoned(kind, entity.id) => entity \in Range(state'[kind])]_vars

C7_CurrentSessionConsistent ==
  (state.currentSession # NoSession /\ Has(state.sessions, state.currentSession.id))
    => Find(state.sessions, state.currentSession.id) = state.currentSession

(* C8: the order history holds at most one entry for a session and product, *)
(* in the store and on the remote: the entry made at submission.           *)
C8_OneEntryPerOrderedItem ==
  /\ \A i, j \in 1..Len(state.orderHistory) :
       (/\ state.orderHistory[i].sessionId = state.orderHistory[j].sessionId
        /\ state.orderHistory[i].productId = state.orderHistory[j].productId)
         => i = j
  /\ \A i, j \in 1..Len(remote.order_history) :
       (/\ remote.order_history[i].session_id = remote.order_history[j].session_id
        /\ remote.order_history[i].product_id = remote.order_history[j].product_id)
         => i = j

StoreSessions(st) ==
  Range(st.sessions) \cup
    (IF st.currentSession # NoSession THEN {st.currentSession} ELSE {})

(* C9: a session that is submitted in the store is not held unsubmitted by *)
(* the store in the next state, whatever the step.                         *)
C9_SubmittedIsTerminal ==
  [][\A before \in StoreSessions(state), after \in StoreSessions(state') :
       (before.id = after.id /\ before.isSubmitted) => after.isSubmitted]_vars

NoneMarked(session) ==
  \A i \in 1..Len(session.items) : ~session.items[i].shouldOrder

Marked(session) ==
  {i \in 1..Len(session.items) : session.items[i].shouldOrder}

(* C11: submitting a draft in which no item is marked to order, from the   *)
(* inventory screen or from the history screen, ends with the no-items     *)
(* error, leaves the store as it was (the session, its items and the order *)
(* history) and does not call the email sender.                            *)
C11_NoItemsNoSubmission ==
  [][/\ \A emailSent \in BOOLEAN :
          (SubmitOrder(emailSent) /\ NoneMarked(state.currentSession))
            => /\ UNCHANGED state
               /\ last'.res = "noItems"
               /\ last'.gw = "none"
     /\ \A sessionId \in SessionIds, emailSent \in BOOLEAN :
          (/\ SubmitDraft(sessionId, emailSent)
           /\ NoneMarked(Find(state.sessions, sessionId)))
            => /\ UNCHANGED state
               /\ last'.res = "noItems"
               /\ last'.gw = "none"]_vars

(* a draft with a counted item, none marked, was submitted while the email *)
(* keys were set                                                           *)
C11_Witness ==
  /\ last.op = "handleSubmitOrder"
  /\ last.res = "noItems"
  /\ ls.emailKeys
  /\ hasActiveSession(state)
  /\ state.currentSession.items # <<>>
  /\ state.orderHistory = <<>>

(* C12: a submission whose email configuration is missing or whose send    *)
(* returns failure leaves the store as it was, so the session is still a   *)
(* draft without end date and the order history has no new entry; a submit *)
(* handler changes the store only after a send that succeeded.             *)
C12_FailedSendDoesNotSubmit ==
  [][/\ \A emailSent \in BOOLEAN :
          (SubmitOrder(emailSent) /\ (~ls.emailKeys \/ ~emailSent))
            => UNCHANGED state
     /\ \A sessionId \in SessionIds, emailSent \in BOOLEAN :
          (SubmitDraft(sessionId, emailSent) /\ (~ls.emailConfig \/ ~emailSent))
            => UNCHANGED state
     /\ \A sessionId \in SessionIds, emailSent \in BOOLEAN :
          ((SubmitOrder(emailSent) \/ SubmitDraft(sessionId, emailSent))
             /\ state' # state)
            => /\ emailSent
               /\ last'.gw = "sendOrderEmail"
               /\ last'.res = "ok"]_vars

(* the send for a draft with a marked item has returned failure and the    *)
(* session is still the current draft                                      *)
C12_Witness ==
  /\ last.op = "handleSubmitOrder"
  /\ last.res = "emailFailed"
  /\ hasActiveSession(state)
  /\ Marked(state.currentSession) # {}
  /\ state.currentSession.endDate = Undefined
  /\ state.orderHistory = <<>>

(* what a successful submission of session S leaves in the next state *)
SubmissionResult(S) ==
  LET I == Marked(S)
      before == Len(state.orderHistory)
      rank(i) == Cardinality({j \in I : j <= i})
      stored == Find(state'.sessions, S.id)
  IN /\ Len(state'.orderHistory) = before + Cardinality(I)
     /\ \A k \in 1..before : state'.orderHistory[k] = state.orderHistory[k]
     /\ \A i \in I :
          LET entry == state'.orderHistory[before + rank(i)]
          IN /\ entry.productId = S.items[i].productId
             /\ entry.locationId = S.items[i].locationId
             /\ entry.sessionId = S.id
             /\ entry.quantityOrdered = S.items[i].currentQuantity
     /\ Has(state'.sessions, S.id)
     /\ stored.isSubmitted
     /\ stored.endDate \notin {Undefined, EmptyString, Null}
     /\ stored.items = S.items

(* C13: a submission of draft S with a marked item, with the email         *)
(* configured and sent, appends to the order history one entry for each    *)
(* marked item of S and none for the others, carrying the item's product,  *)
(* location and quantity and the id of S, and leaves S in sessions         *)
(* submitted, with an end date and with the items it had.                  *)
C13_SubmissionResult ==
  [][/\ (SubmitOrder(TRUE) /\ ls.emailKeys /\ Marked(state.currentSession) # {})
          => SubmissionResult(state.currentSession)
     /\ \A sessionId \in SessionIds :
          (/\ SubmitDraft(sessionId, TRUE)
           /\ ls.emailConfig
           /\ Marked(Find(state.sessions, sessionId)) # {}
           /\ Has(state.locations, Find(state.sessions, sessionId).locationId))
            => SubmissionResult(Find(state.sessions, sessionId))]_vars

(* a session with one unmarked and one marked item has been submitted *)
C13_Witness ==
  /\ last.op = "handleSubmitOrder"
  /\ last.res = "ok"
  /\ state.currentSession.isSubmitted
  /\ Len(state.currentSession.items) = 2
  /\ ~state.currentSession.items[1].shouldOrder
  /\ state.currentSession.items[2].shouldOrder
  /\ Len(state.orderHistory) = 1
  /\ state.orderHistory[1].productId = state.currentSession.items[2].productId

(* C14: deleting product P removes P from products and keeps the others in *)
(* order; of the current session it removes the items of P and keeps the   *)
(* other items, in order, and every other field; locations, categories,    *)
(* suppliers and the order history are as before.                          *)
C14_DeleteProductCascade ==
  [][\A productId \in ProductIds, outcome \in {AllOk, NoneOk} :
       DeleteProduct(productId, outcome) =>
         LET otherProduct(p) == p.id # productId
             otherItem(item) == item.productId # productId
             cs == state.currentSession
         IN /\ state'.products = SelectSeq(state.products, otherProduct)
            /\ ~Has(state'.products, productId)
            /\ IF cs = NoSession
               THEN state'.currentSession = NoSession
               ELSE /\ state'.currentSession.items = SelectSeq(cs.items, otherItem)
                    /\ [state'.currentSession EXCEPT !.items = cs.items] = cs
            /\ state'.locations = state.locations
            /\ state'.categories = state.categories
            /\ state'.suppliers = state.suppliers
            /\ state'.orderHistory = state.orderHistory]_vars

(* a product counted in the current session has been deleted: of the two   *)
(* items the session had, the item of the other product is left            *)
C14_Witness ==
  /\ last.op = "handleDeleteProduct"
  /\ state.currentSession # NoSession
  /\ Len(state.currentSession.items) = 1
  /\ Has(state.products, state.currentSession.items[1].productId)
  /\ Has(state.sessions, state.currentSession.id)
  /\ Len(Find(state.sessions, state.currentSession.id).items) = 2
  /\ \E i \in 1..2 :
       ~Has(state.products,
            Find(state.sessions, state.currentSession.id).items[i].productId)

(* C15: deleting category C leaves, in the one state change, categories    *)
(* without C and every product with its categories list less C: the other  *)
(* references, their order and the other fields of the product are kept.   *)
C15_DeleteCategoryCascade ==
  [][\A categoryId \in CategoryIds, outcome \in {AllOk, NoneOk} :
       DeleteCategory(categoryId, outcome) =>
         LET otherCategory(c) == c.id # categoryId
             otherRef(catId) == catId # categoryId
         IN /\ ~Has(state'.categories, categoryId)
            /\ state'.categories = SelectSeq(state.categories, otherCategory)
            /\ Len(state'.products) = Len(state.products)
            /\ \A i \in 1..Len(state.products) :
                 /\ ~Includes(state'.products[i].categories, categoryId)
                 /\ state'.products[i].categories =
                      SelectSeq(state.products[i].categories, otherRef)
                 /\ [state'.products[i] EXCEPT
                       !.categories = state.products[i].categories]
                      = state.products[i]]_vars

(* the category that the cached product referred to first has been deleted *)
(* and the product is left with its other reference                        *)
C15_Witness ==
  /\ last.op = "handleDeleteCategory"
  /\ ~Has(state.categories, 1)
  /\ 1 \in ls.categories.simple
  /\ Has(state.products, 1)
  /\ Find(state.products, 1).categories = <<2>>

(* the steps at which a reconcile fails *)
ReconcileFails ==
  \/ \E forcePullFirst \in BOOLEAN : ExplicitSync(forcePullFirst) /\ ~ls.supabase
  \/ \E initialized, connectionTest \in BOOLEAN :
       /\ TestConnection(initialized, connectionTest)
       /\ ~(initialized /\ connectionTest)
  \/ \E rejected \in Gets : Fetch(rejected)

C20_NoTornMerge ==
  [][/\ \A rejected \in Gets \cup {"none"} :
          Fetch(rejected) =>
            IF rejected = "none"
            THEN /\ UNCHANGED state
                 /\ sync'.pc = "publish"
                 /\ sync'.data = syncFromDatabase(remote)
            ELSE /\ UNCHANGED state
                 /\ sync'.pc = "idle"
                 /\ sync'.data = NoData
     /\ (state' # state /\ SyncSteps)
          => /\ sync.pc = "publish"
             /\ state'.locations = sync.data.locations
             /\ state'.categories = filteredCategories(sync.data, ls)
             /\ state'.suppliers = sync.data.suppliers
             /\ state'.products = filteredProducts(sync.data, ls)
             /\ state'.sessions = filteredSessions(sync.data, ls)
             /\ state'.orderHistory = filteredOrderHistory(sync.data, ls)]_vars

(* a read of the fetch has thrown while the remote tables were empty: the  *)
(* store holds every cached collection, none has been emptied              *)
C20_Witness ==
  /\ last.op = "syncWithSupabase"
  /\ last.gw = "syncFromDatabase"
  /\ last.res = "error"
  /\ sync.pc = "idle"
  /\ remote.locations = {}
  /\ remote.categories = {}
  /\ remote.suppliers = {}
  /\ remote.products = {}
  /\ state.locations # <<>>
  /\ state.categories # <<>>
  /\ state.suppliers # <<>>
  /\ state.products # <<>>

TombstoneKinds == {"sessions", "categories", "products"}

Deletes == {"handleConfirmDelete", "handleDeleteCategory", "handleDeleteProduct"}

(* C17: a tombstone list changes only in two ways: a deletion handler adds *)
(* to it, or a push-then-pull reconcile in which no upsert failed sweeps   *)
(* it at its end; the sweep keeps the entries newer than 30 days and drops *)
(* the others.  A pull-first reconcile, a reconcile that failed and a      *)
(* reconcile with a failed upsert leave the lists as they were.            *)
C17_PrunedOnlyBySuccessfulSync ==
  [][/\ \A kind \in TombstoneKinds :
          \/ ls'[kind] = ls[kind]
          \/ /\ last'.op \in Deletes
             /\ ls[kind].simple \subseteq ls'[kind].simple
             /\ ls[kind].stamped \subseteq ls'[kind].stamped
          \/ Publish /\ ~sync.forcePullFirst /\ ~sync.upsertFailed
     /\ (Publish /\ ~sync.forcePullFirst /\ ~sync.upsertFailed)
          => \A kind \in TombstoneKinds :
               LET kept == {entry \in ls[kind].stamped :
                              now - entry.timestamp < RetentionDays}
               IN /\ ls'[kind].stamped = kept
                  /\ ls'[kind].simple = {entry.id : entry \in kept}]_vars

(* C18: once the effects of the cards have run, an item of the current     *)
(* draft for a quantity-tracked product whose recorded quantity is below   *)
(* the product's threshold at the location of the session is marked to     *)
(* order.                                                                  *)
C18_AutoCheckOnBreach ==
  (hasActiveSession(state) /\ ~anyPending)
    => \A i \in 1..Len(state.currentSession.items) :
         LET item == state.currentSession.items[i]
         IN (/\ Has(state.products, item.productId)
             /\ Find(state.products, item.productId).requiresQuantity
             /\ item.currentQuantity # Undefined
             /\ item.currentQuantity <
                  minThreshold(Find(state.products, item.productId),
                               state.currentSession.locationId))
              => item.shouldOrder

(* C19: the session rows a push-then-pull reconcile writes are those of    *)
(* the sessions it captured when it started, so an item upserted during    *)
(* its push phase is not in them; and when that reconcile completes, the   *)
(* current session still holds every item that was upserted into it during *)
(* the push phase, with the values the store had for it, so that the next  *)
(* push-then-pull uploads it.                                              *)
C19_UpsertDuringPushIsKept ==
  [][/\ PushSessions
          => \A row \in remote'.sessions \ remote.sessions :
               \E session \in Range(sync.state.sessions) :
                 row = sessionRow(session)
     /\ (Publish /\ ~sync.forcePullFirst)
          => \A pair \in sync.landed :
               state.currentSession.id = pair.sessionId
                 => \A item \in Range(state.currentSession.items) :
                      item.productId = pair.productId
                        => item \in Range(state'.currentSession.items)]_vars

(* C21: deleteCategory and deleteProduct, called by the delete handlers     *)
(* with Supabase configured, return a boolean, and whatever the requests   *)
(* that clean the dependent rows come to (the read of the dependent rows   *)
(* failing, an update of one failing), the request that deletes the        *)
(* category or product row itself is made.                                 *)
C21_CompoundDeleteAttemptsEveryStep ==
  [][/\ \A categoryId \in CategoryIds, outcome \in Outcomes(ProductIds) :
          (ls.supabase /\ DeleteCategory(categoryId, outcome))
            => /\ last'.res \in {"ok", "failed"}
               /\ Includes(last'.calls, "categories.delete")
     /\ \A productId \in ProductIds, outcome \in Outcomes(SessionIds) :
          (ls.supabase /\ DeleteProduct(productId, outcome))
            => /\ last'.res \in {"ok", "failed"}
               /\ Includes(last'.calls, "products.delete")]_vars

Explicit == {"handleSyncWithSupabase", "handlePullFromDatabase"}

Successes ==
  {"Sync with Supabase successful!",
   "Successfully pulled latest data from database!"}

(* the steps at which a call of syncWithSupabase made by caller returns *)
Returns(caller) ==
  \/ /\ caller \in Explicit
     /\ ~ls.supabase
     /\ ExplicitSync(caller = "handlePullFromDatabase")
  \/ sync.caller = caller /\ sync.pc # "idle" /\ sync'.pc = "idle" /\ SyncSteps

(* C22: when a sync or pull the user pressed returns, the message its      *)
(* handler shows is the success message if the reconcile completed and the *)
(* error is not set, and a failure message if the reconcile set the error; *)
(* when a reconcile entered by the startup, periodic or focus trigger      *)
(* returns, failed or not, nothing is shown and the error is all that      *)
(* tells of it.                                                            *)
C22_ExplicitSyncReportsOutcome ==
  [][/\ \A caller \in Explicit :
          Returns(caller)
            => /\ last'.shown # ""
               /\ last'.shown \in Successes <=> error' = "null"
     /\ Returns("autoSyncWithSupabase") => last'.shown = ""]_vars

(* C23: a mounted card of a quantity-tracked product whose order box the   *)
(* user has checked, and not unchecked since, has the box checked while    *)
(* its quantity is at or above the threshold; and once the effects have    *)
(* run, the item of the product in the current session is marked to order. *)
C23_ManualCheckKept ==
  \A productId \in ProductIds :
    LET card == cards[productId]
        session == state.currentSession
    IN (/\ hasActiveSession(state)
        /\ card.mounted
        /\ card.manual
        /\ Has(state.products, productId)
        /\ Find(state.products, productId).requiresQuantity
        /\ card.quantity >= minThreshold(Find(state.products, productId),
                                         session.locationId))
         => /\ card.shouldOrder
            /\ ~anyPending
                 => \E i \in 1..Len(session.items) :
                      /\ session.items[i].productId = productId
                      /\ session.items[i].shouldOrder

(* C24: for sessions, categories and products, in every reachable state,   *)
(* the ids on the simple tombstone list are the ids of the entries on the  *)
(* timestamped list.                                                       *)
C24_TombstoneListsAgree ==
  \A kind \in TombstoneKinds :
    ls[kind].simple = {entry.id : entry \in ls[kind].stamped}

(* a sweep has dropped the tombstone of the category deleted a retention   *)
(* period ago and kept that of the product deleted since                   *)
C24_Witness ==
  /\ last.op = "syncWithSupabase"
  /\ last.res = "synced"
  /\ ~Has(state.categories, 1)
  /\ ls.categories.stamped = {}
  /\ ls.categories.simple = {}
  /\ ls.products.stamped # {}
  /\ ls.products.simple # {}

(* what a dispatch of UPDATE_SESSION with payload leaves in the next state *)
UpsertedById(payload) ==
  LET old == state.sessions
      new == state'.sessions
  IN /\ IF Has(old, payload.id)
        THEN /\ Len(new) = Len(old)
             /\ \A i \in 1..Len(old) :
                  new[i] = IF old[i].id = payload.id THEN payload ELSE old[i]
        ELSE new = Append(old, payload)
     /\ state'.currentSession =
          IF state.currentSession # NoSession /\ state.currentSession.id = payload.id
          THEN payload ELSE state.currentSession

(* C25: the handlers that dispatch UPDATE_SESSION (an item upsert, a        *)
(* submission that went through) leave sessions with the payload in the    *)
(* place of the session of its id and every other session as it was, or,   *)
(* when sessions held no session of that id, with the payload added at the *)
(* end; currentSession becomes the payload when it had the payload's id    *)
(* and is unchanged otherwise.                                             *)
C25_UpdateSessionUpsertsById ==
  [][/\ \A productId \in ProductIds, quantity \in Quantities \cup {Undefined},
          shouldOrder \in BOOLEAN :
          UpsertItem(productId, quantity, shouldOrder)
            => UpsertedById(handleProductUpdate(state.currentSession, productId,
                                                quantity, shouldOrder))
     /\ (SubmitOrder(TRUE) /\ state' # state)
          => UpsertedById(submittedSession(state.currentSession, OrderDate))
     /\ \A sessionId \in SessionIds :
          (SubmitDraft(sessionId, TRUE) /\ state' # state)
            => UpsertedById(submittedSession(Find(state.sessions, sessionId),
                                             OrderDate))]_vars

(* an item was counted in a current session that had been deleted from     *)
(* sessions: the session is back, after the submitted session that was     *)
(* there                                                                   *)
C25_Witness ==
  /\ last.op = "handleProductUpdate"
  /\ Len(state.sessions) = 2
  /\ state.sessions[1].isSubmitted
  /\ state.sessions[2] = state.currentSession
  /\ state.currentSession.id \in ls.sessions.simple
  /\ state.currentSession.items # <<>>

(* C26: deleting session S leaves sessions without S and with the others   *)
(* in order, the order history without the entries of S and with the       *)
(* others in order, and locations, categories, suppliers and products as   *)
(* they were.                                                              *)
C26_DeleteSessionCascade ==
  [][\A sessionId \in SessionIds, success \in BOOLEAN :
       DeleteSession(sessionId, success) =>
         LET otherSession(s) == s.id # sessionId
             otherEntry(item) == item.sessionId # sessionId
         IN /\ ~Has(state'.sessions, sessionId)
            /\ state'.sessions = SelectSeq(state.sessions, otherSession)
            /\ \A i \in 1..Len(state'.orderHistory) :
                 state'.orderHistory[i].sessionId # sessionId
            /\ state'.orderHistory = SelectSeq(state.orderHistory, otherEntry)
            /\ state'.locations = state.locations
            /\ state'.categories = state.categories
            /\ state'.suppliers = state.suppliers
            /\ state'.products = state.products]_vars

(* the second of two submitted sessions has been deleted: the order        *)
(* history holds the entry of the first and none of the deleted one        *)
C26_Witness ==
  /\ last.op = "handleConfirmDelete"
  /\ state.currentSession.isSubmitted
  /\ Marked(state.currentSession) # {}
  /\ state.currentSession.id \in ls.sessions.simple
  /\ Len(state.sessions) = 1
  /\ state.sessions[1].isSubmitted
  /\ state.sessions[1].id # state.currentSession.id
  /\ Len(state.orderHistory) = 1
  /\ state.orderHistory[1].sessionId = state.sessions[1].id

(* C27: pressing Start with a blank name, or with a location id that is    *)
(* not the id of a location in the store, ends with an error and leaves    *)
(* sessions and currentSession as they were; otherwise the current session *)
(* becomes a new draft of that user and location with no items, not        *)
(* submitted, and sessions holds it.                                       *)
C27_StartSessionValidation ==
  [][\A userName \in UserNames, locationId \in {0} \cup Ids(cachedState.locations) :
       StartSession(userName, locationId) =>
         IF Trim(userName) = "" \/ ~Has(state.locations, locationId)
         THEN /\ last'.res = "error"
              /\ state'.sessions = state.sessions
              /\ state'.currentSession = state.currentSession
         ELSE /\ last'.res = "ok"
              /\ state'.currentSession # NoSession
              /\ state'.currentSession.userName = Trim(userName)
              /\ state'.currentSession.locationId = locationId
              /\ state'.currentSession.items = <<>>
              /\ ~state'.currentSession.isSubmitted
              /\ ~Has(state.sessions, state'.currentSession.id)
              /\ state'.sessions = Append(state.sessions, state'.currentSession)]_vars

(* C28: a session deleted with delete-session is in no later sessions      *)
(* collection while its id is on the deleted-sessions tombstone list,      *)
(* whatever the user does next, item upserts of the session that was       *)
(* current when it was deleted included.                                   *)
C28_DeletedSessionStaysDeleted ==
  \A id \in ls.sessions.simple : ~Has(state.sessions, id)

(* C29: when a reconcile of either mode completes, the order history of    *)
(* the store holds no entry whose sessionId is on the deleted-sessions     *)
(* tombstone list, as read when the fetched data is filtered and as left   *)
(* by the reconcile, also when the remote still returns such rows.         *)
C29_OrderHistoryFollowsTombstones ==
  [][Publish =>
       \A i \in 1..Len(state'.orderHistory) :
          /\ state'.orderHistory[i].sessionId \notin ls.sessions.simple
          /\ state'.orderHistory[i].sessionId \notin ls'.sessions.simple]_vars

(* a reconcile has completed while the remote still holds order-history    *)
(* rows of a session on the tombstone list, and the store holds none       *)
C29_Witness ==
  /\ Published
  /\ sync.pc = "idle"
  /\ \E i \in 1..Len(remote.order_history) :
       remote.order_history[i].session_id \in ls.sessions.simple
  /\ \A i \in 1..Len(state.orderHistory) :
       state.orderHistory[i].sessionId \notin ls.sessions.simple

(* C30: no two sessions of the store's sessions collection share an id,    *)
(* whatever SET_CURRENT_SESSION, UPDATE_SESSION, DELETE_SESSION and        *)
(* SET_SESSIONS (with the sessions fetched from the remote) have done.     *)
C30_SessionIdsUnique ==
  \A i, j \in 1..Len(state.sessions) :
     state.sessions[i].id = state.sessions[j].id => i = j

(* the store holds two sessions, a draft of the sessions collection has    *)
(* been loaded as the current session and an item recorded on it           *)
C30_Witness ==
  /\ Len(state.sessions) = 2
  /\ state.currentSession # NoSession
  /\ state.currentSession.id = state.sessions[1].id
  /\ Len(state.currentSession.items) > 0
  /\ last.op = "handleProductUpdate"

====
